---- MODULE Spec2Model ----
(***************************************************************************)
(* AFM Trainer: the training orchestration (afm_trainer_gui.py,            *)
(* training_controller.py), the export invoker (export_handler.py) and     *)
(* configuration validation (config_manager.py) as a state machine.        *)
(*                                                                         *)
(* Threads: the presentation (Tk) thread runs the button handlers and the  *)
(* callbacks queued with root.after; every start request creates one       *)
(* worker thread that runs _run_training.  External processes (main        *)
(* training, draft training, export) are the environment.                  *)
(***************************************************************************)
EXTENDS Integers, Sequences, FiniteSets, TLC

\* ------------------------------------------------------------------ bounds
MaxRuns == 2          \* start requests accepted in one behaviour
MaxStopRuns == 1      \* start requests accepted in a behaviour of StopSpec
MaxMonitorRuns == 1   \* start requests accepted in a behaviour of MonitorSpec
MaxLines == 3         \* lines a process writes in a behaviour of MonitorSpec
MaxProgressRuns == 1  \* start requests accepted in a behaviour of ProgressSpec
MaxProgressLines == 4 \* non-blank lines of the main process that a
                      \* behaviour of ProgressSpec reads
MaxProgressEvents == 4 \* progress reports after which ProgressSpec reads no
                      \* further line of the draft process

Runs == 1..MaxRuns

\* ------------------------------------------------------------- file system
\* Paths that exist on disk.  "" is Path(""), the current directory.
ExistingPaths == {"", "tk_ok", "train.jsonl", "eval.jsonl"}

Exists(path) == path \in ExistingPaths

\* The toolkit directories that hold examples/, export/, assets/ and
\* requirements.txt.
HasToolkitFiles(path) == path = "tk_ok"

\* subprocess.Popen(cwd=dir) raises FileNotFoundError for a missing
\* directory and for the empty string.
PopenSucceeds(dir) == dir # "" /\ Exists(dir)

\* --------------------------------------------------------- text conversion
\* int(text): the texts the entry fields hold in this model.
IntTable == [t \in {"-1", "0", "1", "2", "3", "4"} |->
               CASE t = "-1" -> -1 [] t = "0" -> 0 [] t = "1" -> 1
                 [] t = "2" -> 2 [] t = "3" -> 3 [] t = "4" -> 4]

IntParses(t) == t \in DOMAIN IntTable

\* float(text), in units of 1e-4.
FloatTable == [t \in {"0", "1e-4", "1e-2", "1.0", "2", "11", "0.4532"} |->
                 CASE t = "0" -> 0 [] t = "1e-4" -> 1 [] t = "1e-2" -> 100
                   [] t = "1.0" -> 10000 [] t = "2" -> 20000
                   [] t = "11" -> 110000 [] t = "0.4532" -> 4532]

FloatParses(t) == t \in DOMAIN FloatTable

\* ------------------------------------------------------------ the GUI form
\* The form after construction; the toolkit directory field holds the
\* default toolkit of the working directory, which exists in this model.
DefaultForm == [toolkit_dir |-> "tk_ok", train_data |-> "", eval_data |-> "",
                epochs |-> "2", lr |-> "1e-4", batch_size |-> "4",
                warmup |-> "1", grad_acc |-> "1", weight_decay |-> "1e-2",
                clip_grad_norm |-> "1.0", loss_update_frequency |-> "3",
                train_draft |-> FALSE]

ReadyForm == [DefaultForm EXCEPT !.train_data = "train.jsonl"]

\* The contents of the form the user can produce in this model.
SampleForms == {DefaultForm,
                ReadyForm,
                [ReadyForm EXCEPT !.toolkit_dir = ""],
                [ReadyForm EXCEPT !.train_draft = TRUE],
                [ReadyForm EXCEPT !.epochs = "0"],
                [ReadyForm EXCEPT !.epochs = "abc"]}

\* validate_setup's verdict on the form.
ValidateSetup(f) ==
    /\ Exists(f.toolkit_dir)
    /\ HasToolkitFiles(f.toolkit_dir)
    /\ f.train_data # ""
    /\ Exists(f.train_data)
    /\ (f.eval_data = "" \/ Exists(f.eval_data))
    /\ IntParses(f.epochs)
    /\ FloatParses(f.lr)
    /\ IntParses(f.batch_size)
    /\ FloatParses(f.clip_grad_norm)
    /\ IntParses(f.loss_update_frequency)
    /\ IntTable[f.epochs] > 0
    /\ FloatTable[f.lr] > 0
    /\ IntTable[f.batch_size] > 0
    /\ FloatTable[f.clip_grad_norm] > 0
    /\ FloatTable[f.clip_grad_norm] <= 100000
    /\ IntTable[f.loss_update_frequency] > 0

\* _run_training's config dictionary can be built: every int()/float()
\* conversion succeeds.
ConfigCollects(f) ==
    /\ IntParses(f.epochs)
    /\ FloatParses(f.lr)
    /\ IntParses(f.batch_size)
    /\ IntParses(f.warmup)
    /\ IntParses(f.grad_acc)
    /\ FloatParses(f.weight_decay)
    /\ FloatParses(f.clip_grad_norm)
    /\ IntParses(f.loss_update_frequency)

\* The entries of the config dictionary the orchestration reads.
NoConfig == [toolkit_dir |-> "", train_draft |-> FALSE, epochs |-> 0]

CollectConfig(f) == [toolkit_dir |-> f.toolkit_dir,
                     train_draft |-> f.train_draft,
                     epochs |-> IntTable[f.epochs]]

\* ------------------------------------------------------- external processes
SIGTERM == -15
SIGKILL == -9

NoProc == [st |-> "none", rc |-> 0]
Alive == [st |-> "alive", rc |-> 0]
Signalled == [st |-> "term", rc |-> 0]
Exited(c) == [st |-> "exited", rc |-> c]

\* The process exists and has not exited.
Running(p) == p.st \in {"alive", "term"}

ExitedWith(p, c) == p.st = "exited" /\ p.rc = c

\* ------------------------------------------------------------ output lines
\* A line is a sequence of tokens: "Epoch a/b", "Training", "a/b",
\* "loss: v", or other text.
Tok(k, a, b, v) == [k |-> k, a |-> a, b |-> b, v |-> v]

Lines == {<<>>,
          <<Tok("text", 0, 0, "")>>,
          <<Tok("Epoch", 1, 2, "")>>,
          <<Tok("Epoch", 2, 2, "")>>,
          <<Tok("Epoch", 1, 0, "")>>,
          <<Tok("Training", 0, 0, ""), Tok("frac", 1, 2, ""),
            Tok("loss", 0, 0, "0.4532")>>,
          <<Tok("loss", 0, 0, "1.2.3")>>}

\* Index of the first token of the given kind in the line, 0 if none.
FirstIndex(line, kind) ==
    LET hits == {i \in 1..Len(line) : line[i].k = kind}
    IN IF hits = {} THEN 0 ELSE CHOOSE i \in hits : \A j \in hits : i <= j

\* epoch_pattern.search(line): 0 or the index of the match.
EpochMatch(line) == FirstIndex(line, "Epoch")

\* loss_pattern.search(line): 0 or the index of the match.
LossMatch(line) == FirstIndex(line, "loss")

\* total_epochs after the line has been processed.
TotalEpochsAfter(line, total) ==
    IF EpochMatch(line) # 0 THEN line[EpochMatch(line)].b ELSE total

\* Processing the line in _monitor_training_output raises: float() of a
\* matched loss text that is not a number.
LineRaises(line, total) ==
    /\ TotalEpochsAfter(line, total) > 0
    /\ LossMatch(line) # 0
    /\ ~FloatParses(line[LossMatch(line)].v)

\* batch_pattern without its "Training" prefix: the first digits/digits of
\* the line.
BatchMatchAnyFraction(line) ==
    LET hits == {i \in 1..Len(line) : line[i].k \in {"frac", "Epoch"}}
    IN IF hits = {} THEN 0
       ELSE CHOOSE i \in hits : \A j \in hits : i <= j

\* batch_pattern.search(line), r'Training.*?(\d+)/(\d+)': 0 or the index of
\* the first digits/digits after the first "Training", which may be the
\* digits of an "Epoch a/b".
BatchMatch(line) ==
    LET t == FirstIndex(line, "Training")
        hits == {i \in 1..Len(line) : i > t /\ line[i].k \in {"frac", "Epoch"}}
    IN IF t = 0 \/ hits = {} THEN 0
       ELSE CHOOSE i \in hits : \A j \in hits : i <= j

\* The locals current_epoch, total_epochs, current_batch, total_batches of
\* _monitor_training_output.
Counters(ce, te, cb, tb) ==
    [current_epoch |-> ce, total_epochs |-> te, current_batch |-> cb,
     total_batches |-> tb]

\* The counters after the epoch and batch matches of the line have been
\* assigned.
CountersAfter(c, line) ==
    LET e == EpochMatch(line)
        b == BatchMatch(line)
    IN Counters(IF e # 0 THEN line[e].a ELSE c.current_epoch,
                IF e # 0 THEN line[e].b ELSE c.total_epochs,
                IF b # 0 THEN line[b].a ELSE c.current_batch,
                IF b # 0 THEN line[b].b ELSE c.total_batches)

\* A match object, absent or present, as a sequence of at most one value.
NoMatch == <<>>

\* What the searches of one iteration extract from the line: the epoch and
\* batch pairs, and the loss text, which is searched for only when
\* total_epochs is positive.
Extracted(line, total) ==
    LET e == EpochMatch(line)
        b == BatchMatch(line)
        l == LossMatch(line)
    IN [epoch |-> IF e # 0 THEN <<line[e].a, line[e].b>> ELSE NoMatch,
        batch |-> IF b # 0 THEN <<line[b].a, line[b].b>> ELSE NoMatch,
        loss |-> IF TotalEpochsAfter(line, total) > 0 /\ l # 0
                 THEN <<line[l].v>> ELSE NoMatch]

\* ---------------------------------------------------- progress fractions
\* A fraction n/d, d > 0, in lowest terms.
RECURSIVE GCD(_, _)
GCD(a, b) == IF b = 0 THEN a ELSE GCD(b, a % b)

Abs(n) == IF n < 0 THEN -n ELSE n

Frac(n, d) ==
    LET g == GCD(Abs(n), d) IN <<n \div g, d \div g>>

FracLE(x, y) == x[1] * y[2] <= y[1] * x[2]

Zero == Frac(0, 1)
One == Frac(1, 1)
Half == Frac(1, 2)

\* min(progress, 1.0)
MinOne(x) == IF FracLE(x, One) THEN x ELSE One

\* _monitor_training_output: (current_epoch - 1) / total_epochs, plus
\* current_batch / total_batches / total_epochs when total_batches is
\* positive, and min(progress, 1.0).  Requires total_epochs > 0.
MainProgress(c) ==
    MinOne(IF c.total_batches > 0
           THEN Frac((c.current_epoch - 1) * c.total_batches
                         + c.current_batch,
                     c.total_epochs * c.total_batches)
           ELSE Frac(c.current_epoch - 1, c.total_epochs))

\* _train_draft_model: (current - 1) / total if total > 0 else 0.0
DraftProgress(current, total) ==
    IF total > 0 THEN Frac(current - 1, total) ELSE Zero

\* main_progress_callback halving the fraction whatever train_draft is.
MainScaleHalved(x, train_draft) == Frac(x[1], 2 * x[2])

\* main_progress_callback: progress * 0.5 when train_draft, else progress.
MainScale(x, train_draft) ==
    IF train_draft THEN Frac(x[1], 2 * x[2]) ELSE x

\* draft_progress_callback without the offset of the first stage.
DraftScaleNoOffset(x) == Frac(x[1], 2 * x[2])

\* draft_progress_callback: 0.5 + progress * 0.5
DraftScale(x) == Frac(x[2] + x[1], 2 * x[2])

\* ---------------------------------------------------------- TrainingConfig
\* Optional[int]: <<>> is None, <<n>> is n.
None == <<>>
Some(n) == <<n>>

\* TrainingConfig(): the defaults of the dataclass, floats in units of 1e-4.
DefaultTrainingConfig ==
    [epochs |-> 2, learning_rate |-> 1, batch_size |-> 4,
     linear_warmup_epochs |-> 1, gradient_accumulation_steps |-> 1,
     weight_decay |-> 100, clip_grad_norm |-> 10000,
     precision |-> "bf16-mixed", fixed_sized_sequences |-> FALSE,
     pack_sequences |-> FALSE, max_sequence_length |-> None,
     loss_update_frequency |-> 3, toolkit_dir |-> "", train_data |-> "",
     eval_data |-> "", output_dir |-> "", adapter_name |-> "my_adapter"]

\* The TrainingConfig objects validated in this model.
TrainingConfigs ==
    [epochs : {0, 2}, learning_rate : {0, 1}, batch_size : {0, 4},
     linear_warmup_epochs : {-1, 1}, gradient_accumulation_steps : {0, 1},
     weight_decay : {-1, 100}, clip_grad_norm : {0, 10000},
     precision : {"bf16-mixed", "fp8"}, fixed_sized_sequences : BOOLEAN,
     pack_sequences : BOOLEAN, max_sequence_length : {None, Some(0), Some(128)},
     loss_update_frequency : {0, 3}, toolkit_dir : {"", "tk_gone", "tk_ok"},
     train_data : {"gone.jsonl", "train.jsonl"},
     eval_data : {"", "gone.jsonl", "eval.jsonl"}, output_dir : {"output"},
     adapter_name : {" ", "my_adapter"}]

valid_precisions == {"f32", "bf16", "bf16-mixed", "f16-mixed"}

\* str.strip() of the adapter names of this model.
Strip(name) == IF name = " " THEN "" ELSE name

NotValidated == [ok |-> FALSE, msg |-> "not validated"]
Accept == [ok |-> TRUE, msg |-> ""]
Reject(msg) == [ok |-> FALSE, msg |-> msg]

\* TrainingConfig.validate: the first failing check decides the message.
Validate(c) ==
    IF c.epochs <= 0 THEN Reject("epochs")
    ELSE IF c.learning_rate <= 0 THEN Reject("learning_rate")
    ELSE IF c.batch_size <= 0 THEN Reject("batch_size")
    ELSE IF c.linear_warmup_epochs < 0 THEN Reject("linear_warmup_epochs")
    ELSE IF c.gradient_accumulation_steps <= 0
      THEN Reject("gradient_accumulation_steps")
    ELSE IF c.weight_decay < 0 THEN Reject("weight_decay")
    ELSE IF c.clip_grad_norm <= 0 THEN Reject("clip_grad_norm")
    ELSE IF c.precision \notin valid_precisions THEN Reject("precision")
    ELSE IF c.max_sequence_length # None /\ c.max_sequence_length[1] <= 0
      THEN Reject("max_sequence_length")
    ELSE IF c.pack_sequences /\ c.max_sequence_length = None
      THEN Reject("pack_sequences")
    ELSE IF c.fixed_sized_sequences /\ c.max_sequence_length = None
      THEN Reject("fixed_sized_sequences")
    ELSE IF c.toolkit_dir = "" THEN Reject("toolkit_dir required")
    ELSE IF ~Exists(c.toolkit_dir) THEN Reject("toolkit_dir missing")
    ELSE IF c.train_data = "" THEN Reject("train_data required")
    ELSE IF ~Exists(c.train_data) THEN Reject("train_data missing")
    ELSE IF c.eval_data # "" /\ ~Exists(c.eval_data)
      THEN Reject("eval_data missing")
    ELSE IF c.output_dir = "" THEN Reject("output_dir required")
    ELSE IF Strip(c.adapter_name) = "" THEN Reject("adapter_name required")
    ELSE Accept

\* ------------------------------------------------------------ output_dir
MaxMtime == 2   \* modification times of the files are in 1..MaxMtime

CheckpointTypes == {"adapter", "draft-model"}

\* The file <type>-<tag>.pt, or a file that is no checkpoint.
File(type, tag) == [type |-> type, tag |-> tag]

FileNames ==
    {File(t, g) : t \in CheckpointTypes, g \in {"final", "epoch1", "epoch2"}}
        \cup {File("notes", "txt")}

\* None, where a file is expected.
NoFile == File("", "")

\* The value of `found` before _find_latest_checkpoint has been called.
NotCalled == File("?", "")

\* A directory is a function from FileNames to modification times, 0 for a
\* file that does not exist.
EmptyDir == [f \in FileNames |-> 0]

\* output_dir.glob(f"{checkpoint_type}-*.pt")
Glob(dir, checkpoint_type) ==
    {f \in FileNames : dir[f] # 0 /\ f.type = checkpoint_type}

\* _find_latest_checkpoint with the check for the final checkpoint left out.
FinalPreferredNever(final_exists) == FALSE

\* _find_latest_checkpoint: `if final_checkpoint.exists()`.
FinalPreferred(final_exists) == final_exists

\* The values _find_latest_checkpoint can return: None when the glob is
\* empty, the final checkpoint when it exists, else a file of the glob with
\* the greatest st_mtime (max returns the first such file in the order of
\* the glob, which the file system decides).
FindLatestCheckpoint(dir, checkpoint_type) ==
    LET checkpoints == Glob(dir, checkpoint_type)
        final_checkpoint == File(checkpoint_type, "final")
    IN IF checkpoints = {} THEN {NoFile}
       ELSE IF FinalPreferred(dir[final_checkpoint] # 0)
       THEN {final_checkpoint}
       ELSE {f \in checkpoints : \A g \in checkpoints : dir[g] <= dir[f]}

\* ------------------------------------------------------------------- state
VARIABLES
    training_in_progress, \* AFMTrainerGUI.training_in_progress
    start_btn,            \* state of the Start button
    stop_btn,             \* state of the Stop button
    export_btn,           \* state of the Export button
    form,                 \* the tk variables of the form
    gui,                  \* what the presentation thread is executing
    afterq,               \* callbacks queued with root.after(0, ...)
    stop_event,           \* TrainingController.stop_event
    process,              \* TrainingController.process: 0 is None, r is
                          \* the main process of run r
    nruns,                \* worker threads created so far
    pc,                   \* position of each worker thread
    cfg,                  \* config dictionary of each run
    total_epochs,         \* local of _monitor_training_output
    mainp,                \* main-training process of each run
    draftp,               \* draft-training process of each run
    ret,                  \* how each run's _run_training ended
    exportp,              \* the export process
    export_result,        \* outcome of the last export_adapter call
    adapter_ckpt,         \* an adapter-*.pt file exists in output_dir
    artifact,             \* <adapter_name>.fmadapter exists in output_dir
    tcfg,                 \* a TrainingConfig object
    validation,           \* what tcfg.validate() returned, once called
    stop_returned_early,  \* GUI stop_training has returned at its guard
    emitted,              \* lines each main process has written to its pipe
    nread,                \* how many of them readline has returned
    logged,               \* process lines passed to log_callback, per run
    lines_shown,          \* process lines log_message has put in the log
                          \* widget
    progress_shown,       \* progress updates computed from process lines that
                          \* _update_progress_ui has applied
    current_epoch,        \* local of _monitor_training_output
    current_batch,        \* local of _monitor_training_output
    total_batches,        \* local of _monitor_training_output
    matches,              \* what the searches extracted from the last line
                          \* _monitor_training_output has processed
    progress_events,      \* the calls each run makes of the progress_callback
                          \* given to run_training: fraction and message
    output_dir,           \* modification time of each file of output_dir,
                          \* 0 when the file does not exist
    found                 \* what _find_latest_checkpoint returned last, per
                          \* checkpoint type

vars == <<training_in_progress, start_btn, stop_btn, export_btn, form, gui,
          afterq, stop_event, process, nruns, pc, cfg, total_epochs, mainp,
          draftp, ret, exportp, export_result, adapter_ckpt, artifact, tcfg,
          validation, stop_returned_early, emitted, nread, logged,
          lines_shown, progress_shown, current_epoch, current_batch,
          total_batches, matches, progress_events, output_dir, found>>

guiVars == <<training_in_progress, start_btn, stop_btn, export_btn, form,
             gui>>

\* The log widget and the progress bar, as far as process lines go.
widgetVars == <<lines_shown, progress_shown>>

\* The flag and the widgets that the queued callbacks set.
uiState == <<training_in_progress, start_btn, stop_btn, export_btn,
             widgetVars>>

runVars == <<pc, cfg, total_epochs, mainp, draftp, ret>>

exportVars == <<exportp, export_result, artifact>>

validateVars == <<tcfg, validation>>

pipeVars == <<emitted, nread, logged>>

\* The counters, matches and progress reports of the monitoring loops.
progressVars == <<current_epoch, current_batch, total_batches, matches,
                  progress_events>>

\* The variables that only the specifications of single operations change.
sideVars == <<validateVars, stop_returned_early, pipeVars, widgetVars,
              progressVars, found>>

\* The output directory.
dirVars == <<adapter_ckpt, output_dir>>

\* The application after AFMTrainerGUI.__init__.
AppInit ==
    /\ training_in_progress = FALSE
    /\ start_btn = "normal"
    /\ stop_btn = "disabled"
    /\ export_btn = "disabled"
    /\ form = DefaultForm
    /\ gui = "idle"
    /\ afterq = <<>>
    /\ stop_event = FALSE
    /\ process = 0
    /\ nruns = 0
    /\ pc = [r \in Runs |-> "none"]
    /\ cfg = [r \in Runs |-> NoConfig]
    /\ total_epochs = [r \in Runs |-> 0]
    /\ mainp = [r \in Runs |-> NoProc]
    /\ draftp = [r \in Runs |-> NoProc]
    /\ ret = [r \in Runs |-> "none"]
    /\ exportp = NoProc
    /\ export_result = "none"
    /\ adapter_ckpt \in BOOLEAN
    /\ output_dir = IF adapter_ckpt
                    THEN [EmptyDir EXCEPT ![File("adapter", "epoch1")] = 1]
                    ELSE EmptyDir
    /\ found = [t \in CheckpointTypes |-> NotCalled]
    /\ artifact = FALSE
    /\ stop_returned_early = FALSE
    /\ emitted = [r \in Runs |-> <<>>]
    /\ nread = [r \in Runs |-> 0]
    /\ logged = [r \in Runs |-> <<>>]
    /\ lines_shown = 0
    /\ progress_shown = 0
    /\ current_epoch = [r \in Runs |-> 0]
    /\ current_batch = [r \in Runs |-> 0]
    /\ total_batches = [r \in Runs |-> 0]
    /\ matches = [epoch |-> NoMatch, batch |-> NoMatch, loss |-> NoMatch]
    /\ progress_events = [r \in Runs |-> <<>>]

Init ==
    /\ AppInit
    /\ tcfg = DefaultTrainingConfig
    /\ validation = NotValidated

\* ------------------------------------------------- presentation thread
\* _training_completed_success
TrainingCompletedSuccess ==
    /\ training_in_progress' = FALSE
    /\ start_btn' = "normal"
    /\ stop_btn' = "disabled"
    /\ export_btn' = "normal"

\* _training_completed_error
TrainingCompletedError ==
    /\ training_in_progress' = FALSE
    /\ start_btn' = "normal"
    /\ stop_btn' = "disabled"
    /\ export_btn' = export_btn

\* The user changes the form.
edit_form ==
    /\ gui = "idle"
    /\ \E f \in SampleForms \ {form} : form' = f
    /\ UNCHANGED <<training_in_progress, start_btn, stop_btn, export_btn,
                   gui, afterq, stop_event, process, nruns>>
    /\ UNCHANGED <<runVars, exportVars, dirVars>>
    /\ UNCHANGED sideVars

\* validate_setup: the Validate button.
validate_setup ==
    /\ gui = "idle"
    /\ start_btn' = IF ValidateSetup(form) THEN "normal" ELSE "disabled"
    /\ UNCHANGED <<training_in_progress, stop_btn, export_btn, form, gui,
                   afterq, stop_event, process, nruns>>
    /\ UNCHANGED <<runVars, exportVars, dirVars>>
    /\ UNCHANGED sideVars

\* start_training: the Start button.  Returns at once when a run is in
\* progress; otherwise marks the run in progress and starts a worker thread.
start_training ==
    /\ gui = "idle"
    /\ start_btn = "normal"
    /\ nruns < MaxRuns
    /\ IF training_in_progress
       THEN UNCHANGED <<training_in_progress, start_btn, stop_btn,
                        export_btn, nruns, pc>>
       ELSE /\ training_in_progress' = TRUE
            /\ start_btn' = "disabled"
            /\ stop_btn' = "normal"
            /\ export_btn' = "disabled"
            /\ nruns' = nruns + 1
            /\ pc' = [pc EXCEPT ![nruns + 1] = "collect"]
    /\ UNCHANGED <<form, gui, afterq, stop_event, process, cfg,
                   total_epochs, mainp, draftp, ret, dirVars>>
    /\ UNCHANGED exportVars
    /\ UNCHANGED sideVars

\* StopProceeds without the guard on the in-progress flag.
StopProceedsAlways(in_progress) == TRUE

\* GUI stop_training: `if not self.training_in_progress: return`.
StopProceeds(in_progress) == in_progress

\* GUI stop_training, first half, called in any state of the application:
\* it returns at once when no run is in progress; otherwise (the user
\* confirms) TrainingController.stop_training sets the cancellation flag.
stop_training ==
    /\ gui = "idle"
    /\ IF StopProceeds(training_in_progress)
       THEN /\ stop_event' = TRUE
            /\ gui' = "stop"
            /\ stop_returned_early' = stop_returned_early
       ELSE /\ stop_returned_early' = TRUE
            /\ UNCHANGED <<stop_event, gui>>
    /\ UNCHANGED <<training_in_progress, start_btn, stop_btn, export_btn,
                   form, afterq, process, nruns, dirVars>>
    /\ UNCHANGED <<runVars, exportVars>>
    /\ UNCHANGED <<validateVars, found, pipeVars, widgetVars, progressVars>>

\* The Stop button, which is enabled while a run is in progress.
stop_training_set ==
    /\ stop_btn = "normal"
    /\ training_in_progress
    /\ stop_training

\* The process TrainingController.stop_training acts on: the main process
\* of the run self.process refers to, when it has not exited.
StopTarget == IF process # 0 /\ Running(mainp[process]) THEN process ELSE 0

\* GUI stop_training, second half: TrainingController.stop_training
\* terminates self.process (terminate, wait 5 s, kill, wait); then
\* _training_completed_error runs.
stop_training_kill ==
    /\ gui = "stop"
    /\ IF StopTarget # 0
       THEN \E c \in {SIGTERM, SIGKILL} :
                mainp' = [mainp EXCEPT ![StopTarget] = Exited(c)]
       ELSE mainp' = mainp
    /\ TrainingCompletedError
    /\ gui' = "idle"
    /\ UNCHANGED <<form, afterq, stop_event, process, nruns, pc, cfg,
                   total_epochs, draftp, ret, dirVars>>
    /\ UNCHANGED exportVars
    /\ UNCHANGED sideVars

\* The Tk event loop runs the next callback queued with root.after.  The
\* callback queued by _run_training's exception handler refers to the
\* handler's variable e, which is unbound by the time the callback runs: the
\* callback raises NameError and changes nothing.  The callbacks queued by
\* _log_callback and _update_progress call log_message and
\* _update_progress_ui.
run_after_callback ==
    /\ gui = "idle"
    /\ afterq # <<>>
    /\ afterq' = Tail(afterq)
    /\ CASE Head(afterq) = "success" ->
              TrainingCompletedSuccess /\ UNCHANGED widgetVars
         [] Head(afterq) = "error" ->
              TrainingCompletedError /\ UNCHANGED widgetVars
         [] Head(afterq) = "error_lambda" -> UNCHANGED uiState
         [] Head(afterq) = "log" ->
              /\ lines_shown' = lines_shown + 1
              /\ UNCHANGED <<training_in_progress, start_btn, stop_btn,
                             export_btn, progress_shown>>
         [] Head(afterq) = "progress" ->
              /\ progress_shown' = progress_shown + 1
              /\ UNCHANGED <<training_in_progress, start_btn, stop_btn,
                             export_btn, lines_shown>>
    /\ UNCHANGED <<form, gui, stop_event, process, nruns, dirVars>>
    /\ UNCHANGED <<runVars, exportVars>>
    /\ UNCHANGED <<validateVars, found, stop_returned_early, pipeVars,
                   progressVars>>

\* ---------------------------------------------------------- worker thread
\* How a run that has ended reports: the callback _run_training queues.
RetValues == {"none", "collect_exc", "spawn_exc", "cancelled", "monitor_exc",
              "exit_fail", "ok", "no_checkpoint", "draft_cancelled",
              "draft_exit_fail"}

\* run_training returned True.
ReturnedTrue(r) == ret[r] = "ok"

\* run_training returned False.
ReturnedFalse(r) == ret[r] \in {"spawn_exc", "cancelled", "monitor_exc",
                                "exit_fail", "no_checkpoint",
                                "draft_cancelled", "draft_exit_fail"}

\* Return with the completion handler called by the worker thread itself
\* instead of being queued.
ReturnCallingHandler(r, how) ==
    /\ ret' = [ret EXCEPT ![r] = how]
    /\ pc' = [pc EXCEPT ![r] = "done"]
    /\ total_epochs' = [total_epochs EXCEPT ![r] = 0]
    /\ process' = 0
    /\ afterq' = afterq
    /\ IF how = "ok" THEN TrainingCompletedSuccess
       ELSE TrainingCompletedError

\* The message run_training passes to log_callback when it returns False on
\* the path `how`; "" when it passes none.
FailureMessage(how) ==
    CASE how = "spawn_exc" -> "Training failed: ..."
      [] how = "monitor_exc" -> "Error monitoring training: ..."
      [] how = "exit_fail" -> "Training process exited with code ..."
      [] how = "no_checkpoint" ->
           "No adapter checkpoint found for draft model training"
      [] how = "draft_exit_fail" ->
           "Draft model training failed with code ..."
      [] OTHER -> ""

\* run_training returns on the path `how`: its finally clause clears
\* self.process, and _run_training queues the completion callback with
\* root.after; the worker thread touches no widget.
Return(r, how) ==
    /\ ret' = [ret EXCEPT ![r] = how]
    /\ pc' = [pc EXCEPT ![r] = "done"]
    /\ total_epochs' = [total_epochs EXCEPT ![r] = 0]
    /\ process' = 0
    /\ afterq' = Append(afterq, IF how = "ok" THEN "success" ELSE "error")
    /\ UNCHANGED uiState

\* _run_training builds the config dictionary from the form as it is now.
\* A conversion error is caught by _run_training's handler, which queues
\* lambda: self._training_completed_error(str(e)).
collect_config(r) ==
    /\ pc[r] = "collect"
    /\ IF ConfigCollects(form)
       THEN /\ cfg' = [cfg EXCEPT ![r] = CollectConfig(form)]
            /\ pc' = [pc EXCEPT ![r] = "clear"]
            /\ UNCHANGED <<ret, afterq>>
       ELSE /\ ret' = [ret EXCEPT ![r] = "collect_exc"]
            /\ pc' = [pc EXCEPT ![r] = "done"]
            /\ afterq' = Append(afterq, "error_lambda")
            /\ cfg' = cfg
    /\ UNCHANGED <<guiVars, stop_event, process, nruns, total_epochs, mainp,
                   draftp, dirVars>>
    /\ UNCHANGED exportVars
    /\ UNCHANGED sideVars

\* run_training: self.stop_event.clear()
clear_stop_event(r) ==
    /\ pc[r] = "clear"
    /\ stop_event' = FALSE
    /\ pc' = [pc EXCEPT ![r] = "spawn"]
    /\ UNCHANGED <<guiVars, afterq, process, nruns, cfg, total_epochs, mainp,
                   draftp, ret, dirVars>>
    /\ UNCHANGED exportVars
    /\ UNCHANGED sideVars

\* run_training: self.process = subprocess.Popen(train_cmd, ...).  A spawn
\* error is caught by run_training, which returns False.
spawn_main(r) ==
    /\ pc[r] = "spawn"
    /\ IF PopenSucceeds(cfg[r].toolkit_dir)
       THEN /\ mainp' = [mainp EXCEPT ![r] = Alive]
            /\ process' = r
            /\ total_epochs' = [total_epochs EXCEPT ![r] = cfg[r].epochs]
            /\ pc' = [pc EXCEPT ![r] = "monitor"]
            /\ UNCHANGED <<ret, afterq, uiState>>
       ELSE /\ Return(r, "spawn_exc")
            /\ mainp' = mainp
    /\ UNCHANGED <<form, gui, stop_event, nruns, cfg, draftp, dirVars>>
    /\ UNCHANGED exportVars
    /\ UNCHANGED sideVars

\* _monitor_training_output: readline returned a line of the main process.
read_main_line(r) ==
    /\ pc[r] = "monitor"
    /\ Running(mainp[r])
    /\ \E line \in Lines :
         IF stop_event
         THEN Return(r, "cancelled")
         ELSE IF line = <<>>
         THEN UNCHANGED <<ret, pc, total_epochs, process, afterq, uiState>>
         ELSE IF LineRaises(line, total_epochs[r])
         THEN Return(r, "monitor_exc")
         ELSE /\ total_epochs' = [total_epochs EXCEPT
                                    ![r] = TotalEpochsAfter(line, @)]
              /\ UNCHANGED <<ret, pc, process, afterq, uiState>>
    /\ UNCHANGED <<form, gui, stop_event, nruns, cfg, mainp, draftp,
                   dirVars>>
    /\ UNCHANGED exportVars
    /\ UNCHANGED sideVars

\* _monitor_training_output's verdict on the exit code of process.wait().
MonitorSuccess(return_code) == return_code = 0

\* DraftStage with the success of the main stage ignored.
DraftStageIgnoringSuccess(success, train_draft) == train_draft

\* run_training: `if success and train_draft`.
DraftStage(success, train_draft) == success /\ train_draft

\* _monitor_training_output: readline returned '' (the process has exited);
\* process.wait() gives the exit code; run_training goes on to the draft
\* stage or returns.
main_exited(r) ==
    /\ pc[r] = "monitor"
    /\ mainp[r].st = "exited"
    /\ IF DraftStage(MonitorSuccess(mainp[r].rc), cfg[r].train_draft)
       THEN /\ pc' = [pc EXCEPT ![r] = "draft"]
            /\ total_epochs' = [total_epochs EXCEPT ![r] = 0]
            /\ UNCHANGED <<ret, process, afterq, uiState>>
       ELSE Return(r, IF MonitorSuccess(mainp[r].rc) THEN "ok"
                      ELSE "exit_fail")
    /\ UNCHANGED <<form, gui, stop_event, nruns, cfg, mainp, draftp,
                   dirVars>>
    /\ UNCHANGED exportVars
    /\ UNCHANGED sideVars

\* DraftSpawns without the check for an empty checkpoint list.
DraftSpawnsUnchecked(checkpoint_found) == TRUE

\* _train_draft_model: `if not adapter_checkpoints` decides whether the
\* draft process is spawned.
DraftSpawns(checkpoint_found) == checkpoint_found

\* _train_draft_model: glob adapter-*.pt; return False when there is none,
\* else spawn the draft process.
start_draft(r) ==
    /\ pc[r] = "draft"
    /\ IF DraftSpawns(adapter_ckpt)
       THEN /\ draftp' = [draftp EXCEPT ![r] = Alive]
            /\ pc' = [pc EXCEPT ![r] = "draft_monitor"]
            /\ UNCHANGED <<ret, total_epochs, process, afterq, uiState>>
       ELSE /\ Return(r, "no_checkpoint")
            /\ draftp' = draftp
    /\ UNCHANGED <<form, gui, stop_event, nruns, cfg, mainp, dirVars>>
    /\ UNCHANGED exportVars
    /\ UNCHANGED sideVars

\* _train_draft_model: readline returned a line of the draft process.  When
\* the cancellation flag is set the process is sent terminate() and the
\* function returns without waiting for it.
read_draft_line(r) ==
    /\ pc[r] = "draft_monitor"
    /\ Running(draftp[r])
    /\ \E line \in Lines :
         IF stop_event
         THEN /\ draftp' = [draftp EXCEPT ![r] = Signalled]
              /\ Return(r, "draft_cancelled")
         ELSE UNCHANGED <<draftp, ret, pc, total_epochs, process, afterq,
                          uiState>>
    /\ UNCHANGED <<form, gui, stop_event, nruns, cfg, mainp, dirVars>>
    /\ UNCHANGED exportVars
    /\ UNCHANGED sideVars

\* _train_draft_model: readline returned '' and draft_process.wait() gave
\* the exit code.
draft_exited(r) ==
    /\ pc[r] = "draft_monitor"
    /\ draftp[r].st = "exited"
    /\ Return(r, IF draftp[r].rc = 0 THEN "ok" ELSE "draft_exit_fail")
    /\ UNCHANGED <<form, gui, stop_event, nruns, cfg, mainp, draftp,
                   dirVars>>
    /\ UNCHANGED exportVars
    /\ UNCHANGED sideVars

\* ------------------------------------------------------------------ export
\* ExportHandler._find_toolkit_directory: the given directory when it
\* exists and holds export/, else the default toolkit found by the search
\* of the working directory.
FindToolkitDirectory(dir) ==
    IF dir # "" /\ Exists(dir) /\ HasToolkitFiles(dir) THEN dir ELSE "tk_ok"

\* ExportSpawns without the check for a missing adapter checkpoint.
ExportSpawnsUnchecked(checkpoint_found) == TRUE

\* ExportHandler.export_adapter: `if not adapter_checkpoint: raise` decides
\* whether the export goes on to spawn its process.
ExportSpawns(checkpoint_found) == checkpoint_found

\* export_adapter up to the spawn: the Export button.  Without an adapter
\* checkpoint ExportHandler.export_adapter returns False before any spawn
\* and the handler's finally clause re-enables the button.
export_adapter_start ==
    /\ gui = "idle"
    /\ export_btn = "normal"
    /\ IF /\ ExportSpawns(adapter_ckpt)
          /\ PopenSucceeds(FindToolkitDirectory(form.toolkit_dir))
       THEN /\ exportp' = Alive
            /\ export_btn' = "disabled"
            /\ gui' = "export"
            /\ export_result' = export_result
       ELSE /\ export_result' = IF ExportSpawns(adapter_ckpt)
                                 THEN "spawn_exc" ELSE "no_checkpoint"
            /\ UNCHANGED <<exportp, export_btn, gui>>
    /\ UNCHANGED <<training_in_progress, start_btn, stop_btn, form, afterq,
                   stop_event, process, nruns, dirVars, artifact>>
    /\ UNCHANGED runVars
    /\ UNCHANGED sideVars

\* ExportOutcome with the check of the artifact left out.
ExportOutcomeIgnoringArtifact(return_code, artifact_exists) ==
    IF return_code # 0 THEN "exit_fail" ELSE "ok"

\* ExportHandler.export_adapter's verdict after process.wait().
ExportOutcome(return_code, artifact_exists) ==
    IF return_code # 0 THEN "exit_fail"
    ELSE IF artifact_exists THEN "ok" ELSE "artifact_missing"

\* ExportHandler.export_adapter returned True.
ExportReturnedTrue == export_result = "ok"

\* export_adapter after the export process has exited: the exit code and
\* the presence of <adapter_name>.fmadapter decide the outcome.
export_adapter_finish ==
    /\ gui = "export"
    /\ exportp.st = "exited"
    /\ export_result' = ExportOutcome(exportp.rc, artifact)
    /\ exportp' = NoProc
    /\ export_btn' = "normal"
    /\ gui' = "idle"
    /\ UNCHANGED <<training_in_progress, start_btn, stop_btn, form, afterq,
                   stop_event, process, nruns, dirVars, artifact>>
    /\ UNCHANGED runVars
    /\ UNCHANGED sideVars

\* ------------------------------------------------------------- environment
\* Exit codes of a process that ends by itself.
ExitCodes == {0, 1}

\* A main-training process exits.
main_process_exits(r) ==
    /\ mainp[r].st = "alive"
    /\ \E c \in ExitCodes : mainp' = [mainp EXCEPT ![r] = Exited(c)]
    /\ UNCHANGED <<guiVars, afterq, stop_event, process, nruns, pc, cfg,
                   total_epochs, draftp, ret, dirVars>>
    /\ UNCHANGED exportVars
    /\ UNCHANGED sideVars

\* A draft-training process exits, by itself or on the terminate signal.
draft_process_exits(r) ==
    /\ Running(draftp[r])
    /\ \E c \in ExitCodes \cup {SIGTERM} :
         /\ (c = SIGTERM) => draftp[r].st = "term"
         /\ draftp' = [draftp EXCEPT ![r] = Exited(c)]
    /\ UNCHANGED <<guiVars, afterq, stop_event, process, nruns, pc, cfg,
                   total_epochs, mainp, ret, dirVars>>
    /\ UNCHANGED exportVars
    /\ UNCHANGED sideVars

\* The export process exits.
export_process_exits ==
    /\ exportp.st = "alive"
    /\ \E c \in ExitCodes : exportp' = Exited(c)
    /\ UNCHANGED <<guiVars, afterq, stop_event, process, nruns, dirVars,
                   export_result, artifact>>
    /\ UNCHANGED runVars
    /\ UNCHANGED sideVars

\* A running main-training process writes an adapter checkpoint.
write_checkpoint(r) ==
    /\ Running(mainp[r])
    /\ ~adapter_ckpt
    /\ adapter_ckpt' = TRUE
    /\ output_dir' = [output_dir EXCEPT ![File("adapter", "epoch1")] = 1]
    /\ UNCHANGED <<guiVars, afterq, stop_event, process, nruns>>
    /\ UNCHANGED <<runVars, exportVars>>
    /\ UNCHANGED sideVars

\* The running export process writes <adapter_name>.fmadapter.
write_artifact ==
    /\ Running(exportp)
    /\ ~artifact
    /\ artifact' = TRUE
    /\ UNCHANGED <<guiVars, afterq, stop_event, process, nruns, dirVars,
                   exportp, export_result>>
    /\ UNCHANGED runVars
    /\ UNCHANGED sideVars

\* ----------------------------------------------------------- specification
Next ==
    \/ edit_form
    \/ validate_setup
    \/ start_training
    \/ stop_training_set
    \/ stop_training_kill
    \/ run_after_callback
    \/ export_adapter_start
    \/ export_adapter_finish
    \/ export_process_exits
    \/ write_artifact
    \/ \E r \in Runs : collect_config(r)
    \/ \E r \in Runs : clear_stop_event(r)
    \/ \E r \in Runs : spawn_main(r)
    \/ \E r \in Runs : read_main_line(r)
    \/ \E r \in Runs : main_exited(r)
    \/ \E r \in Runs : start_draft(r)
    \/ \E r \in Runs : read_draft_line(r)
    \/ \E r \in Runs : draft_exited(r)
    \/ \E r \in Runs : main_process_exits(r)
    \/ \E r \in Runs : draft_process_exits(r)
    \/ \E r \in Runs : write_checkpoint(r)

Spec == Init /\ [][Next]_vars

\* The application with stop_training called in any state, not only through
\* the enabled Stop button, over the runs up to MaxStopRuns.
StopNext == stop_training \/ (Next /\ nruns' <= MaxStopRuns)

StopSpec == Init /\ [][StopNext]_vars

\* ------------------------------------- specification of the monitor's pipe
\* The main-training process of run r writes a line to its stdout pipe.
emit_line(r) ==
    /\ Running(mainp[r])
    /\ Len(emitted[r]) < MaxLines
    /\ \E line \in Lines : emitted' = [emitted EXCEPT ![r] = Append(@, line)]
    /\ UNCHANGED <<guiVars, afterq, stop_event, process, nruns, dirVars,
                   nread, logged, stop_returned_early>>
    /\ UNCHANGED <<runVars, exportVars, validateVars, found, widgetVars,
                   progressVars>>

\* The line readline returns next.
NextLine(r) == emitted[r][nread[r] + 1]

\* The callbacks _log_callback and _update_progress queue for a line that
\* has been processed: the log message, and the progress update when
\* total_epochs is positive.
LineCallbacks(line, total) ==
    IF TotalEpochsAfter(line, total) > 0 THEN <<"log", "progress">>
    ELSE <<"log">>

\* _monitor_training_output, one iteration of the loop: readline returns
\* the next line of the pipe; the loop returns when the cancellation flag is
\* set, skips a blank line, and otherwise passes the line to log_callback
\* before it parses it.  A line that raises ends run_training as Return
\* does, with the line's log callback queued before the completion callback.
monitor_line(r) ==
    /\ pc[r] = "monitor"
    /\ nread[r] < Len(emitted[r])
    /\ nread' = [nread EXCEPT ![r] = @ + 1]
    /\ IF stop_event
       THEN /\ Return(r, "cancelled")
            /\ logged' = logged
       ELSE IF NextLine(r) = <<>>
       THEN UNCHANGED <<ret, pc, total_epochs, process, afterq, logged,
                        uiState>>
       ELSE /\ logged' = [logged EXCEPT ![r] = Append(@, NextLine(r))]
            /\ IF LineRaises(NextLine(r), total_epochs[r])
               THEN /\ ret' = [ret EXCEPT ![r] = "monitor_exc"]
                    /\ pc' = [pc EXCEPT ![r] = "done"]
                    /\ total_epochs' = [total_epochs EXCEPT ![r] = 0]
                    /\ process' = 0
                    /\ afterq' = afterq \o <<"log", "error">>
                    /\ UNCHANGED uiState
               ELSE /\ total_epochs' =
                         [total_epochs EXCEPT
                            ![r] = TotalEpochsAfter(NextLine(r), @)]
                    /\ afterq' = afterq \o LineCallbacks(NextLine(r),
                                                         total_epochs[r])
                    /\ UNCHANGED <<ret, pc, process, uiState>>
    /\ UNCHANGED <<form, gui, stop_event, nruns, cfg, mainp, draftp,
                   dirVars, emitted, stop_returned_early>>
    /\ UNCHANGED <<exportVars, validateVars, found, progressVars>>

\* _monitor_training_output: readline returns '' once the process has
\* exited and every line of the pipe has been read.
monitor_eof(r) ==
    /\ nread[r] = Len(emitted[r])
    /\ main_exited(r)

\* One run of the application with the pipe of its main process: the start
\* and stop requests, the worker up to the end of the main stage, and the
\* process.
MonitorNext ==
    \/ start_training /\ nruns' <= MaxMonitorRuns
    \/ stop_training_set
    \/ stop_training_kill
    \/ run_after_callback
    \/ \E r \in Runs : collect_config(r)
    \/ \E r \in Runs : clear_stop_event(r)
    \/ \E r \in Runs : spawn_main(r)
    \/ \E r \in Runs : emit_line(r)
    \/ \E r \in Runs : monitor_line(r)
    \/ \E r \in Runs : monitor_eof(r)
    \/ \E r \in Runs : main_process_exits(r)

MonitorSpec == Init /\ [][MonitorNext]_vars

\* ------------------------------- specification of the progress reports
\* The lines the processes write in ProgressSpec.
ProgressLines ==
    {<<>>,
     <<Tok("text", 0, 0, "")>>,
     <<Tok("Epoch", 1, 2, "")>>,
     <<Tok("Epoch", 2, 2, "")>>,
     <<Tok("Epoch", 3, 2, "")>>,
     <<Tok("Epoch", 1, 0, "")>>,
     <<Tok("Training", 0, 0, ""), Tok("frac", 1, 2, ""),
       Tok("loss", 0, 0, "0.4532")>>,
     <<Tok("Training", 0, 0, ""), Tok("frac", 2, 2, "")>>,
     <<Tok("Training", 0, 0, ""), Tok("Epoch", 2, 2, "")>>,
     <<Tok("loss", 0, 0, "1.2.3")>>}

\* A call progress_callback(fraction, message).
Event(fraction, message) == [fraction |-> fraction, message |-> message]

\* progress_events after run r has called progress_callback.
Reported(r, fraction, message) ==
    [progress_events EXCEPT ![r] = Append(@, Event(fraction, message))]

\* _monitor_training_output, one iteration of the loop with the values it
\* computes: the counters, the matches, and the progress report, which
\* main_progress_callback scales.
monitor_training_output_line(r) ==
    /\ pc[r] = "monitor"
    /\ Running(mainp[r])
    /\ Len(logged[r]) < MaxProgressLines
    /\ \E line \in ProgressLines :
         IF stop_event
         THEN /\ Return(r, "cancelled")
              /\ UNCHANGED <<logged, progressVars>>
         ELSE IF line = <<>>
         THEN UNCHANGED <<ret, pc, total_epochs, process, afterq, uiState,
                          logged, progressVars>>
         ELSE LET c == CountersAfter(Counters(current_epoch[r],
                                              total_epochs[r],
                                              current_batch[r],
                                              total_batches[r]), line)
              IN /\ logged' = [logged EXCEPT ![r] = Append(@, line)]
                 /\ matches' = Extracted(line, total_epochs[r])
                 /\ IF LineRaises(line, total_epochs[r])
                    THEN /\ Return(r, "monitor_exc")
                         /\ UNCHANGED <<current_epoch, current_batch,
                                        total_batches, progress_events>>
                    ELSE /\ current_epoch' =
                              [current_epoch EXCEPT ![r] = c.current_epoch]
                         /\ total_epochs' =
                              [total_epochs EXCEPT ![r] = c.total_epochs]
                         /\ current_batch' =
                              [current_batch EXCEPT ![r] = c.current_batch]
                         /\ total_batches' =
                              [total_batches EXCEPT ![r] = c.total_batches]
                         /\ progress_events' =
                              IF c.total_epochs > 0
                              THEN Reported(r,
                                            MainScale(MainProgress(c),
                                                      cfg[r].train_draft),
                                            "Epoch ...")
                              ELSE progress_events
                         /\ UNCHANGED <<ret, pc, process, afterq, uiState>>
    /\ UNCHANGED <<form, gui, stop_event, nruns, cfg, mainp, draftp,
                   dirVars, stop_returned_early>>
    /\ UNCHANGED <<exportVars, validateVars, found, emitted, nread>>

\* _monitor_training_output after the loop: process.wait() gives the exit
\* code, and code 0 is reported as progress 1.0; run_training goes on to
\* the draft stage or returns.
monitor_training_output_exit(r) ==
    /\ pc[r] = "monitor"
    /\ mainp[r].st = "exited"
    /\ progress_events' =
         IF MonitorSuccess(mainp[r].rc)
         THEN Reported(r, MainScale(One, cfg[r].train_draft),
                       "Training completed successfully")
         ELSE progress_events
    /\ IF DraftStage(MonitorSuccess(mainp[r].rc), cfg[r].train_draft)
       THEN /\ pc' = [pc EXCEPT ![r] = "draft"]
            /\ total_epochs' = [total_epochs EXCEPT ![r] = 0]
            /\ UNCHANGED <<ret, process, afterq, uiState>>
       ELSE Return(r, IF MonitorSuccess(mainp[r].rc) THEN "ok"
                      ELSE "exit_fail")
    /\ UNCHANGED <<form, gui, stop_event, nruns, cfg, mainp, draftp,
                   dirVars, stop_returned_early>>
    /\ UNCHANGED <<current_epoch, current_batch, total_batches, matches>>
    /\ UNCHANGED <<exportVars, validateVars, found, pipeVars>>

\* _train_draft_model up to its loop: without an adapter checkpoint it
\* returns False, else it spawns the draft process and reports progress 0.0.
train_draft_model_start(r) ==
    /\ pc[r] = "draft"
    /\ IF DraftSpawns(adapter_ckpt)
       THEN /\ draftp' = [draftp EXCEPT ![r] = Alive]
            /\ pc' = [pc EXCEPT ![r] = "draft_monitor"]
            /\ progress_events' =
                 Reported(r, DraftScale(Zero),
                          "Draft: Draft training starting...")
            /\ UNCHANGED <<ret, total_epochs, process, afterq, uiState>>
       ELSE /\ Return(r, "no_checkpoint")
            /\ UNCHANGED <<draftp, progress_events>>
    /\ UNCHANGED <<form, gui, stop_event, nruns, cfg, mainp, dirVars,
                   stop_returned_early>>
    /\ UNCHANGED <<current_epoch, current_batch, total_batches, matches>>
    /\ UNCHANGED <<exportVars, validateVars, found, pipeVars>>

\* _train_draft_model, one iteration of the loop: a line with an epoch match
\* is reported as progress, which draft_progress_callback scales.
train_draft_model_line(r) ==
    /\ pc[r] = "draft_monitor"
    /\ Running(draftp[r])
    /\ Len(progress_events[r]) < MaxProgressEvents
    /\ \E line \in ProgressLines :
         IF stop_event
         THEN /\ draftp' = [draftp EXCEPT ![r] = Signalled]
              /\ Return(r, "draft_cancelled")
              /\ UNCHANGED progress_events
         ELSE /\ progress_events' =
                   IF EpochMatch(line) # 0
                   THEN Reported(r,
                                 DraftScale(DraftProgress(
                                     line[EpochMatch(line)].a,
                                     line[EpochMatch(line)].b)),
                                 "Draft: Epoch ...")
                   ELSE progress_events
              /\ UNCHANGED <<draftp, ret, pc, total_epochs, process, afterq,
                             uiState>>
    /\ UNCHANGED <<form, gui, stop_event, nruns, cfg, mainp, dirVars,
                   stop_returned_early>>
    /\ UNCHANGED <<current_epoch, current_batch, total_batches, matches>>
    /\ UNCHANGED <<exportVars, validateVars, found, pipeVars>>

\* _train_draft_model after the loop: draft_process.wait() gives the exit
\* code, and code 0 is reported as progress 1.0.
train_draft_model_exit(r) ==
    /\ pc[r] = "draft_monitor"
    /\ draftp[r].st = "exited"
    /\ progress_events' =
         IF draftp[r].rc = 0
         THEN Reported(r, DraftScale(One),
                       "Draft: Draft training completed successfully")
         ELSE progress_events
    /\ Return(r, IF draftp[r].rc = 0 THEN "ok" ELSE "draft_exit_fail")
    /\ UNCHANGED <<form, gui, stop_event, nruns, cfg, mainp, draftp,
                   dirVars, stop_returned_early>>
    /\ UNCHANGED <<current_epoch, current_batch, total_batches, matches>>
    /\ UNCHANGED <<exportVars, validateVars, found, pipeVars>>

\* One run of the application with the values its monitoring loops report:
\* the form is filled in before the start request.
ProgressNext ==
    \/ edit_form /\ nruns = 0
    \/ start_training /\ nruns' <= MaxProgressRuns
    \/ stop_training_set
    \/ stop_training_kill
    \/ \E r \in Runs : collect_config(r)
    \/ \E r \in Runs : clear_stop_event(r)
    \/ \E r \in Runs : spawn_main(r)
    \/ \E r \in Runs : monitor_training_output_line(r)
    \/ \E r \in Runs : monitor_training_output_exit(r)
    \/ \E r \in Runs : train_draft_model_start(r)
    \/ \E r \in Runs : train_draft_model_line(r)
    \/ \E r \in Runs : train_draft_model_exit(r)
    \/ \E r \in Runs : main_process_exits(r)
    \/ \E r \in Runs : draft_process_exits(r)

ProgressSpec == Init /\ [][ProgressNext]_vars

\* -------------------------- specification of the checkpoint selection
\* A file of the output directory is written, with any modification time.
write_file ==
    /\ \E f \in FileNames, m \in 1..MaxMtime :
           output_dir' = [output_dir EXCEPT ![f] = m]
    /\ adapter_ckpt' = (Glob(output_dir', "adapter") # {})
    /\ UNCHANGED <<guiVars, afterq, stop_event, process, nruns>>
    /\ UNCHANGED <<runVars, exportVars>>
    /\ UNCHANGED sideVars

\* A file of the output directory is removed.
remove_file ==
    /\ \E f \in FileNames :
           /\ output_dir[f] # 0
           /\ output_dir' = [output_dir EXCEPT ![f] = 0]
    /\ adapter_ckpt' = (Glob(output_dir', "adapter") # {})
    /\ UNCHANGED <<guiVars, afterq, stop_event, process, nruns>>
    /\ UNCHANGED <<runVars, exportVars>>
    /\ UNCHANGED sideVars

\* export_adapter calls _find_latest_checkpoint(output_dir, checkpoint_type).
find_latest_checkpoint(checkpoint_type) ==
    /\ \E f \in FindLatestCheckpoint(output_dir, checkpoint_type) :
           found' = [found EXCEPT ![checkpoint_type] = f]
    /\ UNCHANGED <<guiVars, afterq, stop_event, process, nruns, dirVars>>
    /\ UNCHANGED <<runVars, exportVars>>
    /\ UNCHANGED <<validateVars, stop_returned_early, pipeVars, widgetVars,
                   progressVars>>

CheckpointNext ==
    \/ write_file
    \/ remove_file
    \/ \E t \in CheckpointTypes : find_latest_checkpoint(t)

CheckpointSpec == Init /\ [][CheckpointNext]_vars

TypeOK ==
    /\ training_in_progress \in BOOLEAN
    /\ {start_btn, stop_btn, export_btn} \subseteq {"normal", "disabled"}
    /\ form \in SampleForms
    /\ gui \in {"idle", "stop", "export"}
    /\ Len(afterq) <= MaxRuns + 2 * MaxLines
    /\ stop_event \in BOOLEAN
    /\ process \in 0..MaxRuns
    /\ nruns \in 0..MaxRuns
    /\ \A r \in Runs : ret[r] \in RetValues
    /\ adapter_ckpt \in BOOLEAN

\* ------------------------------------------------------------------ claims
\* The external processes that exist and have not exited.
LiveProcesses ==
    {<<"main", r>> : r \in {x \in Runs : Running(mainp[x])}}
      \cup {<<"draft", r>> : r \in {x \in Runs : Running(draftp[x])}}
      \cup (IF Running(exportp) THEN {<<"export", 0>>} ELSE {})

\* The worker thread of run r exists and has not finished.
Executing(r) == pc[r] \notin {"none", "done"}

\* C1: in every reachable state at most one external process (main
\* training, draft training or export) is alive.
C1_AtMostOneProcess == Cardinality(LiveProcesses) <= 1

\* C2: a run that returns from run_training while the cancellation flag is
\* set (stop() was called during the run) returns False.
C2_StoppedRunReturnsFalse ==
    [][\A r \in Runs :
         (Executing(r) /\ pc'[r] = "done" /\ ret'[r] # "collect_exc"
            /\ stop_event)
           => ret'[r] # "ok"]_vars

\* C3: when run_training has returned, by any path, neither the main nor
\* the draft process it spawned is still running.
C3_NoProcessLeftRunning ==
    \A r \in Runs :
        (pc[r] = "done") => ~Running(mainp[r]) /\ ~Running(draftp[r])

\* No worker thread is executing, no callback is queued and the
\* presentation thread is idle: nothing but a user request can happen.
Quiescent ==
    /\ gui = "idle"
    /\ afterq = <<>>
    /\ \A r \in Runs : ~Executing(r)

\* C4: after a run has ended in a failure or a cancellation and all queued
\* work is done, the in-progress flag is False: it is never left stuck at
\* True.
C4_FlagNotStuck == Quiescent => ~training_in_progress

\* C5: while a run that has passed its own clear() is executing, a set
\* cancellation flag is never cleared.
C5_StopEventMonotonic ==
    [][\A r \in Runs :
         (pc[r] \in {"spawn", "monitor", "draft", "draft_monitor"}
            /\ stop_event)
           => stop_event']_vars

C7_NoCheckpointFails ==
    [][\A r \in Runs :
         (pc[r] = "draft" /\ ~adapter_ckpt /\ pc'[r] # "draft")
           => /\ pc'[r] = "done"
              /\ ret'[r] = "no_checkpoint"
              /\ draftp'[r].st = "none"
              /\ afterq' = Append(afterq, "error")]_vars

\* C7 witness: a run with train_draft whose main process exited with code 0
\* has ended for want of a checkpoint, with no draft process.
C7_Witness ==
    \E r \in Runs :
        /\ ret[r] = "no_checkpoint"
        /\ cfg[r].train_draft
        /\ ExitedWith(mainp[r], 0)
        /\ draftp[r].st = "none"
        /\ ~adapter_ckpt

\* C8: when no stop has been requested (the first run, still marked in
\* progress), run_training has returned True exactly if the main process
\* exited with code 0 and either train_draft is false or the draft process
\* was spawned and exited with code 0.
C8_ReturnValue ==
    (/\ nruns = 1
     /\ pc[1] = "done"
     /\ ret[1] # "collect_exc"
     /\ training_in_progress
     /\ gui = "idle"
     /\ mainp[1].st = "exited")
      => (ReturnedTrue(1)
            <=> /\ mainp[1].rc = 0
                /\ (~cfg[1].train_draft \/ ExitedWith(draftp[1], 0)))

\* C9: a start request is accepted (a worker thread is created) only when
\* the form passes validation at the time of the request.
C9_InvalidStartRejected == [][(nruns' # nruns) => ValidateSetup(form)]_vars

C12_StopTerminatesMain ==
    [][(gui = "stop" /\ gui' = "idle")
         => \A r \in Runs :
                (pc[r] = "monitor" /\ Running(mainp[r]))
                  => ~Running(mainp'[r])]_vars

\* C13: when stop() completes, the draft-training process of every run that
\* is monitoring it has been terminated or killed: it is no longer running.
C13_StopTerminatesDraft ==
    [][(gui = "stop" /\ gui' = "idle")
         => \A r \in Runs :
                (pc[r] = "draft_monitor" /\ Running(draftp[r]))
                  => ~Running(draftp'[r])]_vars

\* C14: a run that leaves the point where a stage (main or draft) spawns
\* its process while the cancellation flag is set spawns no process and
\* returns.
C14_NoSpawnWhenCancelled ==
    [][\A r \in Runs :
         /\ (stop_event /\ pc[r] = "spawn" /\ pc'[r] # "spawn")
              => (mainp'[r].st = "none" /\ pc'[r] = "done")
         /\ (stop_event /\ pc[r] = "draft" /\ pc'[r] # "draft")
              => (draftp'[r].st = "none" /\ pc'[r] = "done")]_vars

\* The lines of a sequence that are not blank.
NonBlank(lines) == SelectSeq(lines, LAMBDA line : line # <<>>)

\* C15: blank lines apart, the lines passed to the log sink are the lines
\* the main process wrote, in the same order, none omitted or duplicated:
\* all of them once the stage has ended and the process has exited, those
\* read before the cancellation was observed when the stage was cancelled.
C15_LogEqualsOutput ==
    \A r \in Runs :
        /\ (pc[r] = "done" /\ mainp[r].st = "exited"
              /\ ret[r] \in {"ok", "exit_fail", "monitor_exc"})
             => NonBlank(logged[r]) = NonBlank(emitted[r])
        /\ (ret[r] = "cancelled")
             => NonBlank(logged[r])
                  = NonBlank(SubSeq(emitted[r], 1, nread[r] - 1))

\* C16: whatever line the monitor reads while the cancellation flag is
\* clear, no error is raised and monitoring continues: the worker is still
\* in the monitor loop after the line has been processed.
C16_LineNeverEndsMonitoring ==
    [][\A r \in Runs :
         (pc[r] = "monitor" /\ ~stop_event /\ nread'[r] # nread[r])
           => pc'[r] = "monitor"]_vars

\* A step of a worker thread: _run_training and all it calls.
WorkerStep ==
    \E r \in Runs :
        \/ collect_config(r)
        \/ clear_stop_event(r)
        \/ spawn_main(r)
        \/ read_main_line(r)
        \/ main_exited(r)
        \/ start_draft(r)
        \/ read_draft_line(r)
        \/ draft_exited(r)
        \/ monitor_line(r)
        \/ monitor_eof(r)

\* C17: a step that changes the in-progress flag or a widget (buttons, log
\* widget, progress bar) is never a step of a worker thread: the worker only
\* queues the log, progress and completion callbacks, and their effect on
\* the user interface happens in a step of the presentation thread, in
\* which no worker returns or moves.
C17_WorkerOnlyEnqueues ==
    [][(uiState' # uiState)
         => /\ ~WorkerStep
            /\ ret' = ret
            /\ \A r \in Runs : Executing(r) => pc'[r] = pc[r]]_vars

\* C17 witness: a worker has returned True; the presentation thread has run
\* a log and a progress callback the worker queued, and has not yet run the
\* success callback: the flag and the buttons are still those of a run in
\* progress.
C17_Witness ==
    /\ \E r \in Runs : pc[r] = "done" /\ ret[r] = "ok"
    /\ lines_shown > 0
    /\ progress_shown > 0
    /\ afterq # <<>>
    /\ Head(afterq) = "success"
    /\ training_in_progress
    /\ export_btn = "disabled"

\* C18: a run whose run_training has returned False has had a message about
\* the failure passed to the log sink.
C18_FailureHasMessage ==
    \A r \in Runs : ReturnedFalse(r) => FailureMessage(ret[r]) # ""

\* C19: an export requested while no adapter checkpoint exists spawns no
\* export process and returns False with the no-checkpoint outcome; the
\* handler returns with the Export button enabled.
C19_ExportNeedsCheckpoint ==
    [][(gui = "idle" /\ ~adapter_ckpt /\ exportVars' # exportVars)
         => /\ exportp' = NoProc
            /\ export_result' = "no_checkpoint"
            /\ gui' = "idle"
            /\ export_btn' = "normal"]_vars

\* C19 witness: an export was requested after a successful run that left no
\* checkpoint, and failed with no process spawned.
C19_Witness ==
    /\ export_result = "no_checkpoint"
    /\ ~ExportReturnedTrue
    /\ ~adapter_ckpt
    /\ exportp = NoProc
    /\ \E r \in Runs : ret[r] = "ok"

\* C20: when export_adapter returns after its process has exited, it
\* returns True exactly if the exit code is 0 and the artifact exists; exit
\* code 0 without the artifact is the artifact-missing outcome, a non-zero
\* exit code the exit-failure outcome, and the two differ.
C20_ExportVerdict ==
    [][(gui = "export" /\ gui' = "idle")
         => /\ ExportReturnedTrue' <=> (exportp.rc = 0 /\ artifact)
            /\ (exportp.rc = 0 /\ ~artifact)
                 => export_result' = "artifact_missing"
            /\ (exportp.rc # 0) => export_result' = "exit_fail"]_vars

\* C20 witness: the export process exited with code 0 without writing the
\* artifact, and export_adapter has returned False as artifact-missing.
C20_Witness ==
    /\ export_result = "artifact_missing"
    /\ ~artifact
    /\ gui = "idle"
    /\ exportp = NoProc
    /\ export_btn = "normal"

\* C21: every fraction passed to the progress callback, in the main stage and
\* in the draft stage and for any sequence of output lines, lies in [0, 1].
C21_FractionInUnitInterval ==
    \A r \in Runs : \A i \in 1..Len(progress_events[r]) :
        /\ FracLE(Zero, progress_events[r][i].fraction)
        /\ FracLE(progress_events[r][i].fraction, One)

\* The epoch number in force at line i: that of the last epoch match up to i.
EpochAt(lines, i) ==
    LET hits == {k \in 1..i : EpochMatch(lines[k]) # 0}
        last == CHOOSE k \in hits : \A m \in hits : m <= k
    IN IF hits = {} THEN 0 ELSE lines[last][EpochMatch(lines[last])].a

\* The lines start with an epoch line, carry one total of epochs and one
\* total of batches, their epoch numbers never decrease, and within an epoch
\* their batch numbers never decrease.
Ordered(lines) ==
    LET E == {i \in 1..Len(lines) : EpochMatch(lines[i]) # 0}
        B == {i \in 1..Len(lines) : BatchMatch(lines[i]) # 0}
        ep(i) == lines[i][EpochMatch(lines[i])]
        ba(i) == lines[i][BatchMatch(lines[i])]
    IN /\ lines # <<>> => 1 \in E
       /\ \A i \in B : ba(i).k = "frac"
       /\ \A i, j \in E : ep(i).b = ep(j).b /\ ep(i).b > 0
       /\ \A i, j \in B : ba(i).b = ba(j).b /\ ba(i).b > 0
       /\ \A i, j \in E : i < j => ep(i).a <= ep(j).a
       /\ \A i, j \in B :
              i < j /\ EpochAt(lines, i) = EpochAt(lines, j)
                  => ba(i).a <= ba(j).a

\* The fractions reported for the lines of the main stage, in order.
MainLineFractions(r) ==
    LET idx == {i \in 1..Len(progress_events[r]) :
                    progress_events[r][i].message = "Epoch ..."}
    IN [i \in idx |-> progress_events[r][i].fraction]

\* C22: within the main stage, when the epoch numbers of successive lines
\* never decrease and the batch numbers never decrease within an epoch, the
\* reported fractions never decrease.
C22_FractionsNonDecreasing ==
    \A r \in Runs :
        Ordered(logged[r]) =>
            \A i, j \in DOMAIN MainLineFractions(r) :
                i < j => FracLE(MainLineFractions(r)[i],
                                MainLineFractions(r)[j])

\* The last call run r has made of the progress callback.
LastEvent(r) == progress_events[r][Len(progress_events[r])]

\* C23: without draft training, the last progress report of a run that
\* returned True has fraction exactly 1, and the fraction reported for a
\* line of the main stage is the one the monitoring loop computed from its
\* counters, unscaled.
C23_FinalIsOneUnscaled ==
    \A r \in Runs :
        cfg[r] # NoConfig /\ ~cfg[r].train_draft =>
            /\ ReturnedTrue(r) =>
                   /\ progress_events[r] # <<>>
                   /\ LastEvent(r).fraction = One
            /\ pc[r] = "monitor" /\ total_epochs[r] > 0
                   /\ progress_events[r] # <<>> =>
                   LastEvent(r).fraction =
                       MainProgress(Counters(current_epoch[r],
                                             total_epochs[r],
                                             current_batch[r],
                                             total_batches[r]))

\* A run without draft training has returned True after a line reported as
\* one half.
C23_Witness ==
    /\ nruns = 1
    /\ ~cfg[1].train_draft
    /\ ReturnedTrue(1)
    /\ \E i \in 1..Len(progress_events[1]) :
           /\ progress_events[1][i].message = "Epoch ..."
           /\ progress_events[1][i].fraction = Half
    /\ LastEvent(1).fraction = One

\* C24: with draft training, the report that ends the main stage has
\* fraction exactly one half, whatever the counters are, and the last report
\* of a run that returned True, the one that ends the draft stage, has
\* fraction exactly 1.
C24_StageCompletionFractions ==
    \A r \in Runs :
        cfg[r] # NoConfig /\ cfg[r].train_draft =>
            /\ pc[r] = "draft" =>
                   LastEvent(r) =
                       Event(Half, "Training completed successfully")
            /\ ReturnedTrue(r) =>
                   LastEvent(r) =
                       Event(One,
                             "Draft: Draft training completed successfully")

\* A run with draft training has returned True; its main stage ended at
\* epoch 2 of 2 without batch information: the line was reported as one
\* quarter and the end of the stage as one half.
C24_Witness ==
    /\ nruns = 1
    /\ cfg[1].train_draft
    /\ ReturnedTrue(1)
    /\ current_epoch[1] = 2
    /\ total_batches[1] = 0
    /\ \E i \in 1..(Len(progress_events[1]) - 1) :
           /\ progress_events[1][i] = Event(Frac(1, 4), "Epoch ...")
           /\ progress_events[1][i + 1] =
                  Event(Half, "Training completed successfully")
    /\ LastEvent(1).fraction = One

\* The monitoring loop of run r processes the line in this step.
LineStep(r, line) == logged'[r] = Append(logged[r], line)

\* A line that holds "Epoch A/B" and nothing else.
IsEpochOnly(line) == Len(line) = 1 /\ line[1].k = "Epoch"

\* A line "Training N/M | loss: X".
IsBatchLoss(line) ==
    /\ Len(line) = 3
    /\ line[1].k = "Training"
    /\ line[2].k = "frac"
    /\ line[3].k = "loss"

\* A line that matches none of the three patterns.
IsPlain(line) == line # <<>> /\ \A i \in 1..Len(line) : line[i].k = "text"

\* The counters of the monitoring loop of run r.
LoopCounters(r) ==
    <<current_epoch[r], total_epochs[r], current_batch[r], total_batches[r]>>

InRunTraining(r) ==
    pc[r] \in {"clear", "spawn", "monitor", "draft", "draft_monitor"}

\* C27: training_in_progress is True in every state in which a worker thread
\* is executing run_training, also after a stop request the worker has not
\* yet observed, so that at most one worker executes run_training at a time.
C27_FlagCoversWorker ==
    /\ \A r \in Runs : InRunTraining(r) => training_in_progress
    /\ Cardinality({r \in Runs : InRunTraining(r)}) <= 1

\* A queued completion callback, _training_completed_success or
\* _training_completed_error, is run in this step.
CompletionCallbackRuns ==
    /\ afterq # <<>>
    /\ Head(afterq) \in {"success", "error"}
    /\ afterq' = Tail(afterq)

\* C28: each accepted start request leads to exactly one completion
\* notification, also when the run is stopped.  The flag is set by the start
\* request and cleared by the notification, and a start request is accepted
\* only with the flag clear, so every completion callback must find the flag
\* set: one that finds it clear is a second notification for its run.
C28_OneCompletionPerStart ==
    [][CompletionCallbackRuns => training_in_progress]_vars

\* C29: while the worker of a run monitors its main-training process and the
\* process is alive, self.process refers to that process (so that
\* stop_training can terminate it); the return of an earlier run does not
\* reset the handle.
C29_HandleRefersToLiveProcess ==
    \A r \in Runs :
        pc[r] = "monitor" /\ Running(mainp[r]) => process = r

\* TrainingController.is_training_active:
\* self.process is not None and self.process.poll() is None
is_training_active == process # 0 /\ Running(mainp[process])

\* TrainingController.get_training_status
get_training_status ==
    IF process = 0 THEN "idle"
    ELSE IF Running(mainp[process]) THEN "running"
    ELSE IF mainp[process].rc = 0 THEN "completed"
    ELSE "failed"

\* C30: while a run monitors a main-training or a draft-training process of
\* its own that is alive, is_training_active() returns True and
\* get_training_status() returns "running".
C30_StatusCoversBothStages ==
    \A r \in Runs :
        \/ pc[r] = "monitor" /\ Running(mainp[r])
        \/ pc[r] = "draft_monitor" /\ Running(draftp[r])
        => is_training_active /\ get_training_status = "running"

\* --------------------------------------------- specification of validate()
\* A TrainingConfig object of TrainingConfigs, not yet validated.
ValidateInit ==
    /\ AppInit
    /\ adapter_ckpt = FALSE
    /\ tcfg \in TrainingConfigs
    /\ validation = NotValidated

\* tcfg.validate() is called.
validate ==
    /\ validation = NotValidated
    /\ validation' = Validate(tcfg)
    /\ UNCHANGED <<guiVars, afterq, stop_event, process, nruns, dirVars,
                   tcfg, stop_returned_early, found>>
    /\ UNCHANGED <<runVars, exportVars, pipeVars, widgetVars, progressVars>>

ValidateNext == validate

ValidateSpec == ValidateInit /\ [][ValidateNext]_vars

\* The conditions the claim gives for acceptance.
C10_Conditions(c) ==
    /\ c.epochs > 0
    /\ c.learning_rate > 0
    /\ c.batch_size > 0
    /\ c.clip_grad_norm > 0
    /\ c.loss_update_frequency > 0
    /\ Exists(c.toolkit_dir)
    /\ Exists(c.train_data)
    /\ (c.eval_data = "" \/ Exists(c.eval_data))
    /\ (c.pack_sequences \/ c.fixed_sized_sequences
          => c.max_sequence_length # None)

\* C10: validation accepts a configuration only if epochs, learning_rate,
\* batch_size, clip_grad_norm and loss_update_frequency are positive, the
\* toolkit directory and the training data exist, the evaluation data is
\* empty or exists, and max_sequence_length is set whenever pack_sequences
\* or fixed_sized_sequences is.
C10_AcceptsOnlyValid == validation.ok => C10_Conditions(tcfg)

====
